---- MODULE Spec2Model ----
(***************************************************************************)
(* A model of Hexi's stream engine: the storage block                      *)
(* (detail/intrusive_storage.h), the polymorphic reader and writer         *)
(* (pmc/binary_stream_reader.h, pmc/binary_stream_writer.h) and the        *)
(* templated binary_stream (binary_stream.h).                              *)
(*                                                                         *)
(* A stream runs in throwing mode (the caller catches every exception and  *)
(* goes on) or in non-throwing mode; the mode is fixed at construction.    *)
(***************************************************************************)
EXTENDS Integers, Sequences, FiniteSets, TLC

VARIABLES
    kind,        \* the class under test: "reader" (pmc::binary_stream_reader) or "stream" (binary_stream)
    mode,        \* "throw" or "nothrow"; in "throw" the caller catches what is raised and goes on
    read_limit,  \* read_limit_, fixed at construction
    buf,         \* the readable bytes of the borrowed buffer
    strm,        \* the stream object the operations are called on
    oob,         \* whether buffer.read/skip was ever called with more than buffer.size()
    blk,         \* one intrusive_storage block
    trip         \* the writer/reader round trip over a chain of blocks

vars == <<kind, mode, read_limit, buf, strm, oob, blk, trip>>

----------------------------------------------------------------------------
(* Bounds of the model *)

\* longest initial buffer
MaxBuf == 4
\* largest read_limit (0 = unlimited)
MaxLimit == 2
\* largest element count a caller asks for
MaxCount == 2
\* capacity of a storage block (the template parameter block_size)
BlockSize == 3
\* largest explicit byte count a caller asks for
MaxReq == MaxBuf + 1
\* largest total_read the model follows
MaxTotal == MaxBuf + 2
\* the places of the initial buffer where a byte with the high bit set may stand
HighPlaces == {1, 2}

(* Widths.  std::size_t is modelled with 30 bits instead of 64, so that its *)
(* wrap-around ((size_t)-1, read_limit_ - total_read_) stays below 2^31.    *)
SizeMod == 2 ^ 30
SizeMax == SizeMod - 1

SizeAdd(a, b) == (a + b) % SizeMod
SizeSub(a, b) == (a - b + SizeMod) % SizeMod
SizeMul(a, b) == (a * b) % SizeMod

Min(a, b) == IF a < b THEN a ELSE b

\* byte values the initial buffers are drawn from: the terminator / zero, a
\* small count, and a varint byte with the continuation bit set (0x81)
LowBytes == {0, 1}
HighBytes == {129}

\* sizeof of the element types the operations are instantiated with
ElemSizes == {1, 2, 4}

Modes == {"throw", "nothrow"}

\* hexi::stream_state is one of "ok", "buff_limit_err", "read_limit_err",
\* "buff_write_err", "invalid_stream", "user_defined_err".

----------------------------------------------------------------------------
(* detail::intrusive_storage<block_size>: a block is                       *)
(* [read_offset, write_offset, storage, wild]; the offsets are std::size_t *)
(* (OffsetType), storage holds block_size bytes, and wild records a memcpy *)
(* that left the storage array.                                            *)

\* the bytes src[1..n] laid over s from place at + 1 on
Overlay(s, at, src, n) ==
    [i \in 1..Len(s) |-> IF i > at /\ i <= at + n THEN src[i - at] ELSE s[i]]

\* clear()
storage_clear(b) == [b EXCEPT !.read_offset = 0, !.write_offset = 0]

\* size()
storage_size(b) == SizeSub(b.write_offset, b.read_offset)

\* free()
storage_free(b) == SizeSub(BlockSize, b.write_offset)

\* write(source, length): the block after the call and the count returned;
\* the memcpy of write_len bytes at write_offset
storage_memcpy_in(b, source, write_len) ==
    IF b.write_offset + write_len <= BlockSize
    THEN [b EXCEPT !.storage = Overlay(b.storage, b.write_offset, source, write_len),
                   !.write_offset = SizeAdd(b.write_offset, write_len)]
    ELSE [b EXCEPT !.wild = TRUE,
                   !.write_offset = SizeAdd(b.write_offset, write_len)]

storage_write_reports_length(b, source, length) ==
    [blk |-> storage_memcpy_in(b, source, Min(SizeSub(BlockSize, b.write_offset), length)),
     n |-> length]

storage_write(b, source, length) ==
    [blk |-> storage_memcpy_in(b, source, Min(SizeSub(BlockSize, b.write_offset), length)),
     n |-> Min(SizeSub(BlockSize, b.write_offset), length)]

\* copy(destination, length): the bytes delivered and the count returned;
\* the memcpy of read_len bytes from read_offset
storage_memcpy_out(b, read_len) ==
    IF b.read_offset + read_len <= BlockSize
    THEN [bytes |-> SubSeq(b.storage, b.read_offset + 1, b.read_offset + read_len),
          n |-> read_len, wild |-> FALSE]
    ELSE [bytes |-> <<>>, n |-> read_len, wild |-> TRUE]

storage_copy(b, length) ==
    storage_memcpy_out(b, Min(SizeSub(BlockSize, b.read_offset), length))

storage_optimise_always(b, allow_optimise) ==
    IF b.read_offset = b.write_offset THEN storage_clear(b) ELSE b

\* the tail of read() and skip(): the block is reset once it is drained
storage_optimise(b, allow_optimise) ==
    IF b.read_offset = b.write_offset /\ allow_optimise THEN storage_clear(b) ELSE b

\* read(destination, length, allow_optimise)
storage_read_advance(b, got, allow_optimise) ==
    [blk |-> storage_optimise([b EXCEPT !.read_offset = SizeAdd(b.read_offset, got.n),
                                        !.wild = b.wild \/ got.wild],
                              allow_optimise),
     bytes |-> got.bytes,
     n |-> got.n]

storage_read_short(b, length, allow_optimise) ==
    storage_read_advance(b, [storage_copy(b, length) EXCEPT !.n = IF @ > 0 THEN @ - 1 ELSE 0],
                         allow_optimise)

storage_read(b, length, allow_optimise) ==
    storage_read_advance(b, storage_copy(b, length), allow_optimise)

\* skip(length, allow_optimise)
storage_skip_advance(b, skip_len, allow_optimise) ==
    [blk |-> storage_optimise([b EXCEPT !.read_offset = SizeAdd(b.read_offset, skip_len)],
                              allow_optimise),
     n |-> skip_len]

storage_skip(b, length, allow_optimise) ==
    storage_skip_advance(b, Min(SizeSub(BlockSize, b.read_offset), length), allow_optimise)

\* write_seek(direction, offset)
storage_write_seek(b, direction, offset) ==
    CASE direction = "sk_absolute" -> [b EXCEPT !.write_offset = offset]
      [] direction = "sk_backward" ->
            [b EXCEPT !.write_offset = SizeSub(b.write_offset, offset)]
      [] direction = "sk_forward" ->
            [b EXCEPT !.write_offset = SizeAdd(b.write_offset, offset)]

\* advance_write(size)
storage_advance_write(b, size) ==
    LET remaining == storage_free(b)
        n == IF remaining < size THEN remaining ELSE size
    IN  [blk |-> [b EXCEPT !.write_offset = SizeAdd(b.write_offset, n)], n |-> n]

----------------------------------------------------------------------------
(* The buffer the stream borrows, as the stream sees it: size(), read(),   *)
(* skip(), find_first_of(), write().  It is flat (one sequence of readable *)
(* bytes) or segmented (a chain of storage blocks, head first).  A read or *)
(* skip of more than size() bytes is out of bounds; it is recorded in oob. *)

Drop(s, n) == SubSeq(s, Min(n, Len(s)) + 1, Len(s))
Take(s, n) == SubSeq(s, 1, Min(n, Len(s)))

npos == SizeMax

find_first_of(s, b) ==
    IF \E i \in 1..Len(s) : s[i] = b
    THEN (CHOOSE i \in 1..Len(s) : s[i] = b /\ \A j \in 1..(i - 1) : s[j] # b) - 1
    ELSE npos

\* a block fresh from the allocator
NewBlock ==
    [read_offset |-> 0, write_offset |-> 0,
     storage |-> [i \in 1..BlockSize |-> 0], wild |-> FALSE]

\* the readable bytes of a block
Readable(b) == SubSeq(b.storage, b.read_offset + 1, Min(b.write_offset, BlockSize))

RECURSIVE chain_size(_)
chain_size(blocks) ==
    IF blocks = <<>> THEN 0
    ELSE SizeAdd(storage_size(Head(blocks)), chain_size(Tail(blocks)))

RECURSIVE chain_bytes(_)
chain_bytes(blocks) ==
    IF blocks = <<>> THEN <<>>
    ELSE Readable(Head(blocks)) \o chain_bytes(Tail(blocks))

\* writes append to the tail, allocating a new block when the tail is full
RECURSIVE chain_write(_, _)
chain_write_tail(blocks, bytes, w) ==
    chain_write([blocks EXCEPT ![Len(blocks)] = w.blk], Drop(bytes, w.n))

chain_write(blocks, bytes) ==
    IF bytes = <<>> THEN blocks
    ELSE IF blocks = <<>> \/ storage_free(blocks[Len(blocks)]) = 0
         THEN chain_write(Append(blocks, NewBlock), bytes)
         ELSE chain_write_tail(blocks, bytes,
                               storage_write(blocks[Len(blocks)], bytes, Len(bytes)))

\* reads drain from the head; a drained head block is unlinked unless it is
\* the only block, which is reset for reuse instead
RECURSIVE chain_read_from(_, _, _)
chain_read_head(blocks, n, bytes, r) ==
    IF storage_size(r.blk) = 0 /\ Len(blocks) > 1
    THEN chain_read_from(Tail(blocks), n - r.n, bytes \o r.bytes)
    ELSE IF r.n = 0
         THEN [bytes |-> bytes, blocks |-> blocks]
         ELSE chain_read_from(<<r.blk>> \o Tail(blocks), n - r.n, bytes \o r.bytes)

chain_read_from(blocks, n, bytes) ==
    IF n = 0 \/ blocks = <<>> THEN [bytes |-> bytes, blocks |-> blocks]
    ELSE chain_read_head(blocks, n, bytes, storage_read(Head(blocks), n, Len(blocks) = 1))

chain_read(blocks, n) == chain_read_from(blocks, n, <<>>)

RECURSIVE chain_skip(_, _)
chain_skip_head(blocks, n, r) ==
    IF storage_size(r.blk) = 0 /\ Len(blocks) > 1
    THEN chain_skip(Tail(blocks), n - r.n)
    ELSE IF r.n = 0
         THEN blocks
         ELSE chain_skip(<<r.blk>> \o Tail(blocks), n - r.n)

chain_skip(blocks, n) ==
    IF n = 0 \/ blocks = <<>> THEN blocks
    ELSE chain_skip_head(blocks, n, storage_skip(Head(blocks), n, Len(blocks) = 1))

buffer_size(c) == IF c.chained THEN chain_size(c.buf) ELSE Len(c.buf)

buffer_find_first_of(c, b) ==
    find_first_of(IF c.chained THEN chain_bytes(c.buf) ELSE c.buf, b)

chain_deliver(c, n, r) ==
    [c EXCEPT !.val = r.bytes,
              !.buf = r.blocks,
              !.oob = c.oob \/ n > chain_size(c.buf)]

buffer_read(c, n) ==
    IF c.chained
    THEN chain_deliver(c, n, chain_read(c.buf, n))
    ELSE [c EXCEPT !.val = Take(c.buf, n),
                   !.buf = Drop(c.buf, n),
                   !.oob = c.oob \/ n > Len(c.buf)]

buffer_skip(c, n) ==
    IF c.chained
    THEN [c EXCEPT !.buf = chain_skip(c.buf, n),
                   !.oob = c.oob \/ n > chain_size(c.buf)]
    ELSE [c EXCEPT !.buf = Drop(c.buf, n),
                   !.oob = c.oob \/ n > Len(c.buf)]

buffer_write(c, bytes) ==
    IF c.chained
    THEN [c EXCEPT !.buf = chain_write(c.buf, bytes)]
    ELSE [c EXCEPT !.buf = c.buf \o bytes]

----------------------------------------------------------------------------
(* A call context: the stream object's fields and its buffer while one     *)
(* operation runs.  go says whether control passed a bounds-check macro,   *)
(* val is what the last buffer read delivered (or a decoded number),       *)
(* n_out the number of elements appended to the destination container.     *)

CtxAs(m) ==
    [buf |-> buf, total_read |-> strm.total_read, state |-> strm.state,
     alive |-> strm.alive, moved |-> strm.moved, oob |-> oob,
     chained |-> ("pc" \in DOMAIN trip),
     allow_throw |-> (m = "throw"),
     thrown |-> FALSE, go |-> TRUE, val |-> <<>>, n_out |-> 0]

Ctx == CtxAs(mode)

\* stream_base: state(), set_state()
set_state(c, s) == [c EXCEPT !.state = s]

\* HEXI_THROW: raises only when the stream allows it
hexi_throw(c) == [c EXCEPT !.thrown = c.allow_throw]

----------------------------------------------------------------------------
(* pmc::binary_stream_reader *)

enforce_read_bounds_no_size_check(c, read_size) ==
    IF read_limit # 0 /\ read_size > SizeSub(read_limit, c.total_read)
    THEN hexi_throw(set_state(c, "read_limit_err"))
    ELSE [c EXCEPT !.total_read = SizeAdd(c.total_read, read_size)]

enforce_read_bounds_limit_first(c, read_size) ==
    IF read_limit # 0 /\ read_size > SizeSub(read_limit, c.total_read)
    THEN hexi_throw(set_state(c, "read_limit_err"))
    ELSE IF read_size > buffer_size(c)
         THEN hexi_throw(set_state(c, "buff_limit_err"))
         ELSE [c EXCEPT !.total_read = SizeAdd(c.total_read, read_size)]

enforce_read_bounds(c, read_size) ==
    IF read_size > buffer_size(c)
    THEN hexi_throw(set_state(c, "buff_limit_err"))
    ELSE IF read_limit # 0 /\ read_size > SizeSub(read_limit, c.total_read)
         THEN hexi_throw(set_state(c, "read_limit_err"))
         ELSE [c EXCEPT !.total_read = SizeAdd(c.total_read, read_size)]

\* the macro: go is FALSE where the macro returns (or the exception leaves)
STREAM_READ_BOUNDS_ENFORCE(c, read_size) ==
    IF c.state # "ok"
    THEN [c EXCEPT !.go = FALSE]
    ELSE LET d == enforce_read_bounds(c, read_size)
         IN  [d EXCEPT !.go = ~d.thrown /\ (d.allow_throw \/ d.state = "ok")]

SAFE_READ(c, read_size) ==
    LET d == STREAM_READ_BOUNDS_ENFORCE(c, read_size)
    IN  IF d.go THEN buffer_read(d, read_size) ELSE d

\* endian::le(x).from(): the value the four bytes read denote, least
\* significant byte first
FromLE32(bs) ==
    bs[1] + 256 * bs[2] + 65536 * bs[3] + 16777216 * bs[4]

\* operator>>(pod&), get<T>(), get(T&), operator>>(endian adaptor), get(endian adaptor&)
reader_get_pod(c, w) == SAFE_READ(c, w)

(* Scalars of w bytes and their byte order.  host is the byte order of the  *)
(* machine, order the one an adaptor asks for.                              *)

\* the bytes of the object holding v in memory (what memcpy copies out)
object_bytes(v, w, host) ==
    [i \in 1..w |-> IF host = "little"
                    THEN (v \div (256 ^ (i - 1))) % 256
                    ELSE (v \div (256 ^ (w - i))) % 256]

RECURSIVE object_value(_, _)
\* the value of the object whose bytes are bs (what memcpy copies in)
object_value(bs, host) ==
    IF bs = <<>> THEN 0
    ELSE IF host = "little"
         THEN bs[1] + 256 * object_value(Tail(bs), host)
         ELSE bs[Len(bs)] + 256 * object_value(SubSeq(bs, 1, Len(bs) - 1), host)

\* the byte-swap primitive
byteswap(v, w) == object_value(object_bytes(v, w, "little"), "big")

\* adaptor.to(), endian::convert<native_to_...>
endian_to(v, w, order, host) ==
    IF order = "native" \/ order = host THEN v ELSE byteswap(v, w)

\* adaptor.from(), endian::convert<..._to_native>
endian_from(v, w, order, host) ==
    IF order = "native" \/ order = host THEN v ELSE byteswap(v, w)

reader_get_endian_unconverted(c, w, order, host) ==
    LET d == SAFE_READ(c, w)
    IN  IF d.go THEN [d EXCEPT !.val = object_value(d.val, host)] ELSE d

\* operator>>(endian adaptor), get(endian adaptor&), get<T, conversion>()
reader_get_endian(c, w, order, host) ==
    LET d == SAFE_READ(c, w)
    IN  IF d.go
        THEN [d EXCEPT !.val = endian_from(object_value(d.val, host), w, order, host)]
        ELSE d

\* get(std::string&, size)
reader_get_string(c, size) ==
    LET d == STREAM_READ_BOUNDS_ENFORCE(c, size)
    IN  IF d.go THEN buffer_read(d, size) ELSE d

\* get(T* dest, count), get(range&)
reader_get_array(c, count, w) == SAFE_READ(c, SizeMul(count, w))

reader_skip_uncounted(c, length) ==
    LET d == STREAM_READ_BOUNDS_ENFORCE(c, length)
    IN  IF d.go THEN [buffer_skip(d, length) EXCEPT !.total_read = c.total_read] ELSE d

\* skip(length)
reader_skip(c, length) ==
    LET d == STREAM_READ_BOUNDS_ENFORCE(c, length)
    IN  IF d.go THEN buffer_skip(d, length) ELSE d

\* operator>>(prefixed<std::string>), operator>>(std::string&), get(std::string&)
reader_prefixed_string(c) ==
    LET d == SAFE_READ(c, 4)
        size == IF d.go THEN FromLE32(d.val) ELSE 0
    IN  IF d.thrown \/ d.state # "ok"
        THEN d
        ELSE LET e == STREAM_READ_BOUNDS_ENFORCE(d, size)
             IN  IF e.go THEN buffer_read(e, size) ELSE e

reader_null_terminated_no_skip(c) ==
    LET pos == buffer_find_first_of(c, 0)
    IN  IF pos = npos
        THEN [c EXCEPT !.val = <<>>]
        ELSE LET d == STREAM_READ_BOUNDS_ENFORCE(c, pos + 1)
             IN  IF d.go THEN buffer_read(d, pos) ELSE d

reader_null_terminated_drain(c) ==
    LET pos == buffer_find_first_of(c, 0)
        d == STREAM_READ_BOUNDS_ENFORCE(c, IF pos = npos THEN buffer_size(c) ELSE pos + 1)
    IN  IF ~d.go THEN d
        ELSE IF pos = npos THEN buffer_read(d, buffer_size(c))
        ELSE buffer_skip(buffer_read(d, pos), 1)

\* operator>>(null_terminated<std::string>)
reader_null_terminated(c) ==
    LET pos == buffer_find_first_of(c, 0)
    IN  IF pos = npos
        THEN [c EXCEPT !.val = <<>>]
        ELSE LET d == STREAM_READ_BOUNDS_ENFORCE(c, pos + 1)
             IN  IF d.go THEN buffer_skip(buffer_read(d, pos), 1) ELSE d

(* varint_decode<std::size_t>(stream): one byte at a time through          *)
(* operator>>(pod&); seven payload bits a byte, least significant group    *)
(* first, the high bit says that more follow.  A byte read that fails      *)
(* delivers zero, which ends the decode.  val is the decoded number.       *)
RECURSIVE varint_loop(_, _, _)
varint_loop(c, shift, value) ==
    LET d == reader_get_pod(c, 1)
        byte == IF d.go THEN d.val[1] ELSE 0
        v == value + (byte % 128) * (2 ^ shift)
    IN  IF d.thrown
        THEN [d EXCEPT !.val = value]
        ELSE IF byte >= 128
             THEN varint_loop(d, shift + 7, v)
             ELSE [d EXCEPT !.val = v]

varint_decode(c) == varint_loop(c, 0, 0)

(* std::unreachable() has undefined behaviour.  What a build makes of it:    *)
(*   "abort"       a hardened or debug standard library traps;               *)
(*   "return"      the branch is kept and falls out of the function;         *)
(*   "fallthrough" the optimiser takes state() == ok for granted from here   *)
(*                 on and drops the state checks that follow.                *)
UBOutcomes == {"abort", "return", "fallthrough"}

unreachable_reached(c, size, outcome) ==
    CASE outcome = "abort" -> [c EXCEPT !.alive = FALSE]
      [] outcome = "return" -> c
      [] OTHER ->
            LET d == STREAM_READ_BOUNDS_ENFORCE([c EXCEPT !.state = "ok"], size)
            IN  IF d.go
                THEN buffer_read([d EXCEPT !.state = c.state], size)
                ELSE d

\* operator>>(prefixed_varint<std::string>)
reader_varint_string(c, outcome) ==
    LET d == varint_decode(c)
        size == d.val
    IN  IF d.thrown
        THEN d
        ELSE IF d.state # "ok"
             THEN unreachable_reached(d, size, outcome)
             ELSE LET e == STREAM_READ_BOUNDS_ENFORCE(d, size)
                  IN  IF e.go THEN buffer_read(e, size) ELSE e

(* The element loop of read_container and of get(begin, end): `left` times *)
(* *this >> value, then emplace_back.  Once the stream is not ok every     *)
(* further operator>> returns at the first line of the macro, so the rest  *)
(* of the loop only appends: it is taken in one step.                      *)
RECURSIVE read_elements(_, _, _)
read_elements(c, left, w) ==
    IF left = 0
    THEN c
    ELSE LET d == reader_get_pod(c, w)
         IN  IF d.thrown
             THEN d
             ELSE IF d.state # "ok"
                  THEN [d EXCEPT !.n_out = d.n_out + left]
                  ELSE read_elements([d EXCEPT !.n_out = d.n_out + 1], left - 1, w)

\* read_container(container, count); memcpy says which constexpr branch the
\* container type selects
read_container(c, count, w, memcpy) ==
    IF memcpy
    THEN SAFE_READ([c EXCEPT !.n_out = count], SizeMul(count, w))
    ELSE read_elements([c EXCEPT !.n_out = 0], count, w)

\* operator>>(prefixed<T>), T iterable
reader_prefixed_container(c, w, memcpy) ==
    LET d == SAFE_READ(c, 4)
        count == IF d.go THEN FromLE32(d.val) ELSE 0
    IN  IF d.thrown THEN d ELSE read_container(d, count, w, memcpy)

\* operator>>(prefixed_varint<T>), T iterable
reader_varint_container(c, w, memcpy) ==
    LET d == varint_decode(c)
    IN  IF d.thrown THEN d ELSE read_container(d, d.val, w, memcpy)

\* get(begin, end)
reader_get_iter(c, count, w) == read_elements([c EXCEPT !.n_out = 0], count, w)

\* read_max(), with the assertion compiled out
read_max(c) ==
    IF read_limit # 0
    THEN SizeSub(read_limit, c.total_read)
    ELSE buffer_size(c)

\* the assertion of read_max(): a build that keeps it aborts where it is false
read_max_assertion(c) == read_limit # 0 => c.total_read < read_limit

----------------------------------------------------------------------------
(* binary_stream<buf_type, exceptions> *)

check_read_bounds_no_size_check(c, read_size) ==
    LET max_read_remaining == SizeSub(read_limit, c.total_read)
    IN  IF read_limit # 0 /\ read_size > max_read_remaining
        THEN hexi_throw(set_state(c, "read_limit_err"))
        ELSE [c EXCEPT !.total_read = SizeAdd(c.total_read, read_size)]

check_read_bounds(c, read_size) ==
    IF read_size > buffer_size(c)
    THEN hexi_throw(set_state(c, "buff_limit_err"))
    ELSE LET max_read_remaining == SizeSub(read_limit, c.total_read)
         IN  IF read_limit # 0 /\ read_size > max_read_remaining
             THEN hexi_throw(set_state(c, "read_limit_err"))
             ELSE [c EXCEPT !.total_read = SizeAdd(c.total_read, read_size)]

\* the macro: go is FALSE where the macro returns (or the exception leaves)
STREAM_READ_BOUNDS_CHECK(c, read_size) ==
    LET d == check_read_bounds(c, read_size)
    IN  [d EXCEPT !.go = ~d.thrown /\ (d.allow_throw \/ d.state = "ok")]

\* operator>>(T&) for a pod, get(arithmetic&), get<T>(), get<conversion>(...)
stream_get_pod(c, w) ==
    LET d == STREAM_READ_BOUNDS_CHECK(c, w)
    IN  IF d.go THEN buffer_read(d, w) ELSE d

\* get<conversion>(dest), get<T, conversion>()
stream_get_endian(c, w, order, host) ==
    LET d == STREAM_READ_BOUNDS_CHECK(c, w)
    IN  IF d.go
        THEN LET e == buffer_read(d, w)
             IN  [e EXCEPT !.val = endian_from(object_value(e.val, host), w, order, host)]
        ELSE d

\* get(std::string&, size)
stream_get_string(c, size) ==
    LET d == STREAM_READ_BOUNDS_CHECK(c, size)
    IN  IF d.go THEN buffer_read(d, size) ELSE d

\* get(T* dest, count), get(range&)
stream_get_array(c, count, w) ==
    LET read_size == SizeMul(count, w)
        d == STREAM_READ_BOUNDS_CHECK(c, read_size)
    IN  IF d.go THEN buffer_read(d, read_size) ELSE d

\* skip(count)
stream_skip(c, count) ==
    LET d == STREAM_READ_BOUNDS_CHECK(c, count)
    IN  IF d.go THEN buffer_skip(d, count) ELSE d

\* span<out_type>(count)
stream_span(c, count, w) ==
    LET d == STREAM_READ_BOUNDS_CHECK(c, SizeMul(w, count))
    IN  IF d.go THEN buffer_skip(d, SizeMul(w, count)) ELSE d

\* operator>>(std::string&), get(std::string&): up to the next null byte
stream_null_terminated(c) ==
    LET pos == buffer_find_first_of(c, 0)
    IN  IF pos = npos
        THEN [c EXCEPT !.val = <<>>]
        ELSE LET d == buffer_read(c, pos)
                 e == [d EXCEPT !.total_read = SizeAdd(SizeAdd(c.total_read, pos), 1)]
             IN  buffer_skip(e, 1)

\* view(terminator), operator>>(std::string_view&)
stream_view(c) ==
    LET pos == buffer_find_first_of(c, 0)
    IN  IF pos = npos
        THEN [c EXCEPT !.val = <<>>]
        ELSE LET d == buffer_skip([c EXCEPT !.val = Take(c.buf, pos)], pos + 1)
             IN  [d EXCEPT !.total_read = SizeAdd(c.total_read, pos + 1)]

\* get(begin, end): operator>> once per element, whatever the state
RECURSIVE stream_get_iter(_, _, _)
stream_get_iter(c, left, w) ==
    IF left = 0
    THEN c
    ELSE LET d == stream_get_pod(c, w)
         IN  IF d.thrown THEN d ELSE stream_get_iter(d, left - 1, w)

----------------------------------------------------------------------------
(* The stream machine: one stream object over one flat buffer, of the      *)
(* class and in the mode chosen at construction, driven by arbitrary calls. *)

\* the initial buffers.  Bytes with the high bit set stay within the first
\* HighPlaces, so that every 32-bit prefix the model decodes is below 2^31.
Buffers ==
    UNION {
        {b \in [1..n -> LowBytes \cup HighBytes] :
            \A i \in 1..n : i \notin HighPlaces => b[i] \in LowBytes}
        : n \in 0..MaxBuf }

\* a count whose product with sizeof(T) wraps around std::size_t
HugeCount == SizeMod \div 4

Counts == (0..MaxCount) \cup {HugeCount}

\* alive: the process has not trapped; moved: the object has been the source of a move
NewStream == [total_read |-> 0, state |-> "ok", alive |-> TRUE, moved |-> FALSE]

NoBlock == [none |-> TRUE]

InitStream ==
    /\ kind \in {"reader", "stream"}
    /\ mode \in Modes
    /\ read_limit \in 0..MaxLimit
    /\ buf \in Buffers
    /\ strm = NewStream
    /\ oob = FALSE
    /\ blk = NoBlock
    /\ trip = NoBlock

\* the counters the model follows: up to MaxTotal, and the moved-from
\* sentinel (std::size_t)-1
Followed(t) == t <= MaxTotal \/ t = SizeMax

\* the stream object as the context leaves it
Object(r) ==
    [total_read |-> r.total_read, state |-> r.state, alive |-> r.alive, moved |-> r.moved]

\* nothing runs in a process that has trapped
Commit(r) ==
    /\ strm.alive
    /\ Followed(r.total_read)
    /\ buf' = r.buf
    /\ strm' = Object(r)
    /\ oob' = r.oob
    /\ UNCHANGED <<kind, mode, read_limit, blk, trip>>

get_pod(c, w) ==
    IF kind = "reader" THEN reader_get_pod(c, w) ELSE stream_get_pod(c, w)

get_string(c, n) ==
    IF kind = "reader" THEN reader_get_string(c, n) ELSE stream_get_string(c, n)

get_array(c, count, w) ==
    IF kind = "reader" THEN reader_get_array(c, count, w) ELSE stream_get_array(c, count, w)

skip(c, n) ==
    IF kind = "reader" THEN reader_skip(c, n) ELSE stream_skip(c, n)

get_iter(c, count, w) ==
    IF kind = "reader" THEN reader_get_iter(c, count, w) ELSE stream_get_iter(c, count, w)

null_terminated(c) ==
    IF kind = "reader" THEN reader_null_terminated(c) ELSE stream_null_terminated(c)

GetPod(w) == Commit(get_pod(Ctx, w))

GetString(n) == Commit(get_string(Ctx, n))

GetArray(count, w) == Commit(get_array(Ctx, count, w))

Skip(n) == Commit(skip(Ctx, n))

GetIter(count, w) == Commit(get_iter(Ctx, count, w))

GetNullTerminated == Commit(null_terminated(Ctx))

GetPrefixedString ==
    /\ kind = "reader"
    /\ Commit(reader_prefixed_string(Ctx))

GetVarintString(outcome) ==
    /\ kind = "reader"
    /\ Commit(reader_varint_string(Ctx, outcome))

GetPrefixedContainer(w, memcpy) ==
    /\ kind = "reader"
    /\ Commit(reader_prefixed_container(Ctx, w, memcpy))

GetVarintContainer(w, memcpy) ==
    /\ kind = "reader"
    /\ Commit(reader_varint_container(Ctx, w, memcpy))

View ==
    /\ kind = "stream"
    /\ Commit(stream_view(Ctx))

Span(count, w) ==
    /\ kind = "stream"
    /\ Commit(stream_span(Ctx, count, w))

\* clear_error_state()
clear_error_state(c) == set_state(c, "ok")

\* set_error_state()
set_error_state(c) == set_state(c, "user_defined_err")

ClearErrorState == Commit(clear_error_state(Ctx))

SetErrorState == Commit(set_error_state(Ctx))

\* the move constructor: what the new object holds, and what is left in rhs
move_to(rhs) == [rhs EXCEPT !.moved = FALSE]

move_from(rhs) ==
    [rhs EXCEPT !.total_read = SizeMax, !.state = "invalid_stream", !.moved = TRUE]

\* the run goes on with one of the two objects; the other is not used again
Move(follow) ==
    /\ strm.alive
    /\ strm' = IF follow = "source" THEN move_from(strm) ELSE move_to(strm)
    /\ UNCHANGED <<kind, mode, read_limit, buf, oob, blk, trip>>

NextStream ==
    \/ \E w \in ElemSizes : GetPod(w)
    \/ \E n \in 0..MaxReq : GetString(n)
    \/ \E count \in Counts, w \in ElemSizes : GetArray(count, w)
    \/ \E n \in 0..MaxReq : Skip(n)
    \/ \E count \in 0..MaxCount, w \in ElemSizes : GetIter(count, w)
    \/ GetNullTerminated
    \/ GetPrefixedString
    \/ \E outcome \in UBOutcomes : GetVarintString(outcome)
    \/ \E w \in ElemSizes, memcpy \in BOOLEAN : GetPrefixedContainer(w, memcpy)
    \/ \E w \in ElemSizes, memcpy \in BOOLEAN : GetVarintContainer(w, memcpy)
    \/ View
    \/ \E count \in Counts, w \in ElemSizes : Span(count, w)
    \/ ClearErrorState
    \/ SetErrorState
    \/ \E follow \in {"source", "target"} : Move(follow)

Spec == InitStream /\ [][NextStream]_vars

----------------------------------------------------------------------------
(* One storage block driven by arbitrary calls.  blk holds the block, the  *)
(* count the last call returned and the bytes the last copy or read        *)
(* delivered.  The storage array is not initialised by the constructor,    *)
(* so a fresh block holds any bytes.  A block is not followed further      *)
(* once a memcpy has left its storage array.                               *)

\* largest length or offset a caller passes
MaxArg == BlockSize + 1

Lengths == 0..MaxArg

\* offsets the model follows: a little above zero, a little below SizeMod
Near(x) == x <= BlockSize + MaxArg \/ x >= SizeMod - MaxArg

Sources(length) == [1..length -> LowBytes]

SeekDirections == {"sk_absolute", "sk_backward", "sk_forward"}

InitBlock ==
    /\ kind = "reader"
    /\ mode = "throw"
    /\ read_limit = 0
    /\ buf = <<>>
    /\ strm = NewStream
    /\ oob = FALSE
    /\ trip = NoBlock
    /\ \E st \in [1..BlockSize -> LowBytes] :
          blk = [block |-> [read_offset |-> 0, write_offset |-> 0,
                            storage |-> st, wild |-> FALSE],
                 ret |-> 0, got |-> <<>>]

BlockStep(b, ret, got) ==
    /\ ~blk.block.wild
    /\ Near(b.read_offset)
    /\ Near(b.write_offset)
    /\ blk' = [block |-> b, ret |-> ret, got |-> got]
    /\ UNCHANGED <<kind, mode, read_limit, buf, strm, oob, trip>>

BlockWrite(source, length) ==
    LET r == storage_write(blk.block, source, length)
    IN  BlockStep(r.blk, r.n, <<>>)

BlockCopy(length) ==
    LET r == storage_copy(blk.block, length)
    IN  BlockStep([blk.block EXCEPT !.wild = r.wild], r.n, r.bytes)

BlockRead(length, allow_optimise) ==
    LET r == storage_read(blk.block, length, allow_optimise)
    IN  BlockStep(r.blk, r.n, r.bytes)

BlockSkip(length, allow_optimise) ==
    LET r == storage_skip(blk.block, length, allow_optimise)
    IN  BlockStep(r.blk, r.n, <<>>)

BlockAdvanceWrite(size) ==
    LET r == storage_advance_write(blk.block, size)
    IN  BlockStep(r.blk, r.n, <<>>)

BlockWriteSeek(direction, offset) ==
    BlockStep(storage_write_seek(blk.block, direction, offset), 0, <<>>)

BlockClear == BlockStep(storage_clear(blk.block), 0, <<>>)

NextBlock ==
    \/ \E length \in Lengths : \E source \in Sources(length) : BlockWrite(source, length)
    \/ \E length \in Lengths : BlockCopy(length)
    \/ \E length \in Lengths, allow_optimise \in BOOLEAN : BlockRead(length, allow_optimise)
    \/ \E length \in Lengths, allow_optimise \in BOOLEAN : BlockSkip(length, allow_optimise)
    \/ \E size \in Lengths : BlockAdvanceWrite(size)
    \/ \E direction \in SeekDirections, offset \in Lengths : BlockWriteSeek(direction, offset)
    \/ BlockClear

SpecBlock == InitBlock /\ [][NextBlock]_vars

----------------------------------------------------------------------------
(* pmc::binary_stream_writer.  A writer context is                         *)
(* [buf, chained, total_write, state, allow_throw, thrown]; throws says    *)
(* that the buffer's write raises (the allocator has no block to give).    *)

writer_write_uncounted(c, data, size, throws) ==
    IF c.state = "ok"
    THEN IF throws
         THEN hexi_throw(set_state(c, "buff_write_err"))
         ELSE buffer_write(c, data)
    ELSE c

writer_write_counts_failed(c, data, size, throws) ==
    IF c.state = "ok"
    THEN IF throws
         THEN [hexi_throw(set_state(c, "buff_write_err"))
                  EXCEPT !.total_write = SizeAdd(c.total_write, size)]
         ELSE [buffer_write(c, data) EXCEPT !.total_write = SizeAdd(c.total_write, size)]
    ELSE c

writer_write_unguarded(c, data, size, throws) ==
    IF throws
    THEN hexi_throw(set_state(c, "buff_write_err"))
    ELSE [buffer_write(c, data) EXCEPT !.total_write = SizeAdd(c.total_write, size)]

\* write(data, size)
writer_write(c, data, size, throws) ==
    IF c.state = "ok"
    THEN IF throws
         THEN hexi_throw(set_state(c, "buff_write_err"))
         ELSE [buffer_write(c, data) EXCEPT !.total_write = SizeAdd(c.total_write, size)]
    ELSE c

\* write_container(container) for a container of bytes (the memcpy path)
writer_write_container(c, container, throws) ==
    writer_write(c, container, SizeMul(Len(container), 1), throws)

\* endian::native_to_little(std::uint32_t): the four bytes stored, least
\* significant first
ToLE32(n) ==
    <<n % 256, (n \div 256) % 256, (n \div 65536) % 256, (n \div 16777216) % 256>>

writer_prefixed_big_endian(c, str, fail_at) ==
    LET d == writer_write(c, <<0, 0, 0, Len(str)>>, 4, fail_at = 1)
    IN  IF d.thrown THEN d
        ELSE writer_write_container(d, str, fail_at = 2)

\* operator<<(prefixed<T>), operator<<(const std::string&), operator<<(std::string_view);
\* fail_at names the write call whose buffer write raises (0: none)
writer_prefixed(c, str, fail_at) ==
    LET d == writer_write(c, ToLE32(Len(str)), 4, fail_at = 1)
    IN  IF d.thrown THEN d
        ELSE writer_write_container(d, str, fail_at = 2)

----------------------------------------------------------------------------
(* The round trip: a writer puts one string with a fixed-width prefix into *)
(* a segmented buffer, a reader over the same buffer takes it out.  trip   *)
(* holds the string written, the string read, the writer object and the    *)
(* position in the scenario; buf is the chain and strm the reader.         *)

\* longest string written: two bytes more than a block holds
MaxStr == BlockSize + 2

Strings == UNION {[1..n -> LowBytes] : n \in 0..MaxStr}

InitRoundTrip ==
    /\ kind = "reader"
    /\ mode \in Modes
    /\ read_limit = 0
    /\ buf = <<>>
    /\ strm = NewStream
    /\ oob = FALSE
    /\ blk = NoBlock
    /\ \E str \in Strings :
          trip = [pc |-> "start", s |-> str, out |-> <<>>,
                  w |-> [total_write |-> 0, state |-> "ok"]]

WriterCtx ==
    [buf |-> buf, chained |-> TRUE, total_write |-> trip.w.total_write,
     state |-> trip.w.state, allow_throw |-> (mode = "throw"), thrown |-> FALSE]

\* writer << prefixed(s)
TripWrite(fail_at) ==
    /\ trip.pc = "start"
    /\ LET r == writer_prefixed(WriterCtx, trip.s, fail_at)
       IN  /\ buf' = r.buf
           /\ trip' = [trip EXCEPT !.pc = "written",
                                   !.w = [total_write |-> r.total_write, state |-> r.state]]
    /\ UNCHANGED <<kind, mode, read_limit, strm, oob, blk>>

\* reader >> prefixed(out)
TripRead ==
    /\ trip.pc = "written"
    /\ LET r == reader_prefixed_string(Ctx)
       IN  /\ buf' = r.buf
           /\ strm' = Object(r)
           /\ oob' = r.oob
           /\ trip' = [trip EXCEPT !.pc = "read",
                                   !.out = IF r.go /\ ~r.thrown THEN r.val ELSE <<>>]
    /\ UNCHANGED <<kind, mode, read_limit, blk>>

NextRoundTrip ==
    \/ \E fail_at \in 0..2 : TripWrite(fail_at)
    \/ TripRead

SpecRoundTrip == InitRoundTrip /\ [][NextRoundTrip]_vars

----------------------------------------------------------------------------
(* More of the writers.  fail_at names the write call of the operation     *)
(* whose buffer write raises (0: none).                                     *)

\* binary_stream_writer: operator<<(endian adaptor), put(endian adaptor)
writer_put_endian(c, v, w, order, host, fail_at) ==
    writer_write(c, object_bytes(endian_to(v, w, order, host), w, host), w, fail_at = 1)

\* binary_stream_writer: operator<<(null_terminated<std::string_view>) writes
\* the payload and then the terminator; operator<<(null_terminated<std::string>)
\* writes size() + 1 bytes of the string's own storage in one call
writer_null_terminated(c, str, as_view, fail_at) ==
    IF as_view
    THEN LET d == writer_write(c, str, Len(str), fail_at = 1)
         IN  IF d.thrown THEN d ELSE writer_write(d, <<0>>, 1, fail_at = 2)
    ELSE writer_write(c, str \o <<0>>, Len(str) + 1, fail_at = 1)

\* the number of seven-bit groups of v
RECURSIVE VarintGroups(_)
VarintGroups(v) == IF v >= 128 THEN 1 + VarintGroups(v \div 128) ELSE 1

\* varint_encode(stream, value): one byte at a time through operator<<(pod),
\* seven payload bits a byte, least significant group first, the high bit
\* set on every byte but the last
RECURSIVE varint_encode(_, _, _)
varint_encode(c, value, fail_at) ==
    IF value >= 128
    THEN LET d == writer_write(c, <<128 + (value % 128)>>, 1, fail_at = 1)
         IN  IF d.thrown THEN d ELSE varint_encode(d, value \div 128, fail_at - 1)
    ELSE writer_write(c, <<value>>, 1, fail_at = 1)

\* binary_stream_writer: operator<<(prefixed_varint<T>)
writer_varint_prefixed(c, str, fail_at) ==
    LET d == varint_encode(c, Len(str), fail_at)
    IN  IF d.thrown THEN d
        ELSE writer_write_container(d, str, fail_at = VarintGroups(Len(str)) + 1)

\* binary_stream_writer: put(range&), put(const T*, count) for a range of bytes
writer_put(c, data, fail_at) == writer_write(c, data, SizeMul(Len(data), 1), fail_at = 1)

\* binary_stream_writer: fill<size>(value)
writer_fill(c, size, value, fail_at) ==
    writer_write(c, [i \in 1..size |-> value], size, fail_at = 1)

\* binary_stream_writer: what the move constructor leaves in rhs
writer_move_from(rhs) ==
    [rhs EXCEPT !.total_write = SizeMax, !.state = "invalid_stream"]

\* the write of binary_stream: no state test and no handler around the
\* buffer's write, so what the buffer raises leaves the operator
stream_write(c, data, size, throws) ==
    IF throws
    THEN [c EXCEPT !.thrown = TRUE]
    ELSE [buffer_write(c, data) EXCEPT !.total_write = SizeAdd(c.total_write, size)]

\* binary_stream: put<conversion>(data)
stream_put_endian(c, v, w, order, host, fail_at) ==
    stream_write(c, object_bytes(endian_to(v, w, order, host), w, host), w, fail_at = 1)

\* binary_stream: operator<<(const std::string&)
stream_put_string(c, str, fail_at) ==
    stream_write(c, str \o <<0>>, SizeAdd(Len(str), 1), fail_at = 1)

----------------------------------------------------------------------------
(* The wire: a writer puts framed items into a segmented buffer and a      *)
(* reader over the same buffer takes them out in the order written, each   *)
(* with the extraction that matches its framing.  kind says whether the    *)
(* two ends are binary_stream_writer and binary_stream_reader or one       *)
(* binary_stream.  trip holds the byte order of the machine, the writer    *)
(* object, whether the last write raised to its caller, the items written  *)
(* and not yet read, and what the last read delivered.                     *)

\* write calls made in one run
MaxItems == 2

ScalarWidths == {1, 2}

ByteOrders == {"little", "big", "native"}

\* a value of a scalar of w bytes that has no two bytes alike
ScalarValues(w) == {256 ^ w - 2}

\* strings without a null byte: the short ones, and one that fills a storage
\* block and one that does not fit in it
WireStrings ==
    {<<>>, <<2>>, <<1, 2>>} \cup {[i \in 1..n |-> 1] : n \in {BlockSize, BlockSize + 1}}

\* the strings written with a varint prefix
VarintStrings == {str \in WireStrings : Len(str) \in {2, BlockSize + 1}}

VarintValues == {0, 1, 127, 128, 16383, 16384, SizeMax}

Item(type, v, w, order, s) == [type |-> type, v |-> v, w |-> w, order |-> order, s |-> s]

NoItem == Item("none", 0, 0, "native", <<>>)

InitWire ==
    /\ kind \in {"reader", "stream"}
    /\ mode \in Modes
    /\ read_limit = 0
    /\ buf = <<>>
    /\ strm = NewStream
    /\ oob = FALSE
    /\ blk = NoBlock
    /\ \E host \in {"little", "big"} :
          trip = [pc |-> "wire", host |-> host,
                  w |-> [total_write |-> 0, state |-> "ok"],
                  escaped |-> FALSE, writes |-> 0, sent |-> <<>>,
                  last |-> [item |-> NoItem, wrote |-> 0, v |-> 0, s |-> <<>>,
                            used |-> 0, n |-> 0]]

\* the writer leaves r; the item is on the wire when every write call was made
WireWrite(r, item) ==
    /\ trip.pc = "wire"
    /\ trip.writes < MaxItems
    /\ kind = "stream" => ~trip.escaped
    /\ buf' = r.buf
    /\ trip' = [trip EXCEPT
                  !.w = [total_write |-> r.total_write, state |-> r.state],
                  !.escaped = r.thrown,
                  !.writes = @ + 1,
                  !.sent = IF r.state = "ok" /\ ~r.thrown
                           THEN Append(@, [item |-> item,
                                           wrote |-> r.total_write - trip.w.total_write])
                           ELSE @]
    /\ UNCHANGED <<kind, mode, read_limit, strm, oob, blk>>

\* the reader leaves r, having delivered the number v or the string s
WireRead(r, v, s) ==
    /\ buf' = r.buf
    /\ strm' = Object(r)
    /\ oob' = r.oob
    /\ trip' = [trip EXCEPT
                  !.sent = Tail(@),
                  !.last = [item |-> Head(trip.sent).item, wrote |-> Head(trip.sent).wrote,
                            v |-> v, s |-> s,
                            used |-> r.total_read - strm.total_read,
                            n |-> @.n + 1]]
    /\ UNCHANGED <<kind, mode, read_limit, blk>>

\* the item the next read is for
HeadItem == IF trip.sent = <<>> THEN NoItem ELSE Head(trip.sent).item

PutScalar(v, w, order, fail_at) ==
    WireWrite(IF kind = "reader"
              THEN writer_put_endian(WriterCtx, v, w, order, trip.host, fail_at)
              ELSE stream_put_endian(WriterCtx, v, w, order, trip.host, fail_at),
              Item("scalar", v, w, order, <<>>))

PutNullTerminated(str, as_view, fail_at) ==
    WireWrite(IF kind = "reader"
              THEN writer_null_terminated(WriterCtx, str, as_view, fail_at)
              ELSE stream_put_string(WriterCtx, str, fail_at),
              Item("cstring", 0, 0, "native", str))

PutVarint(v, fail_at) ==
    /\ kind = "reader"
    /\ WireWrite(varint_encode(WriterCtx, v, fail_at), Item("varint", v, 0, "native", <<>>))

PutVarintPrefixed(str, fail_at) ==
    /\ kind = "reader"
    /\ WireWrite(writer_varint_prefixed(WriterCtx, str, fail_at),
                 Item("vstring", 0, 0, "native", str))

wire_get_endian(c, item) ==
    IF kind = "reader"
    THEN reader_get_endian(c, item.w, item.order, trip.host)
    ELSE stream_get_endian(c, item.w, item.order, trip.host)

wire_delivered(r) == IF r.go /\ ~r.thrown THEN r.val ELSE 0

GetScalar ==
    /\ trip.pc = "wire"
    /\ HeadItem.type = "scalar"
    /\ WireRead(wire_get_endian(Ctx, HeadItem),
                wire_delivered(wire_get_endian(Ctx, HeadItem)), <<>>)

GetCString ==
    /\ trip.pc = "wire"
    /\ HeadItem.type = "cstring"
    /\ WireRead(null_terminated(Ctx), 0, null_terminated(Ctx).val)

GetVarint ==
    /\ trip.pc = "wire"
    /\ HeadItem.type = "varint"
    /\ WireRead(varint_decode(Ctx), varint_decode(Ctx).val, <<>>)

GetVarintPrefixed ==
    /\ trip.pc = "wire"
    /\ HeadItem.type = "vstring"
    /\ WireRead(reader_varint_string(Ctx, "return"), 0, reader_varint_string(Ctx, "return").val)

NextWire ==
    \/ \E w \in ScalarWidths : \E v \in ScalarValues(w) :
          \E order \in ByteOrders, fail_at \in 0..2 : PutScalar(v, w, order, fail_at)
    \/ \E str \in WireStrings, as_view \in BOOLEAN, fail_at \in 0..2 :
          PutNullTerminated(str, as_view, fail_at)
    \/ \E v \in VarintValues, fail_at \in 0..2 : PutVarint(v, fail_at)
    \/ \E str \in VarintStrings, fail_at \in 0..2 : PutVarintPrefixed(str, fail_at)
    \/ GetScalar
    \/ GetCString
    \/ GetVarint
    \/ GetVarintPrefixed

SpecWire == InitWire /\ [][NextWire]_vars

----------------------------------------------------------------------------
(* The segmented buffer on its own: a chain of storage blocks written to,  *)
(* read from and skipped over by arbitrary calls that stay within size().  *)
(* trip holds the bytes the chain ought to hold, oldest first, and of the  *)
(* last call: which it was, the payload written, whether the chain was     *)
(* empty before it, the amount copied into each block, the bytes a read    *)
(* delivered and the bytes it ought to have delivered.                     *)

\* longest payload written in one call: it takes three blocks
MaxPayload == 2 * BlockSize + 2

\* calls made on the chain in one run
MaxCalls == 4

\* payloads in which neighbouring bytes differ, two of each length
Payloads == {[i \in 1..n |-> (i + k) % 3] : n \in 0..MaxPayload, k \in {0, 1}}

\* what one write copied into each block of the chain it left
chain_copied(before, after) ==
    [i \in 1..Len(after) |->
        after[i].write_offset - (IF i <= Len(before) THEN before[i].write_offset ELSE 0)]

InitChain ==
    /\ kind = "reader"
    /\ mode = "throw"
    /\ read_limit = 0
    /\ buf = <<>>
    /\ strm = NewStream
    /\ oob = FALSE
    /\ blk = NoBlock
    /\ trip = [pc |-> "chain", calls |-> 0, held |-> <<>>, last |-> "none", payload |-> <<>>,
               was_empty |-> TRUE, copied |-> <<>>, got |-> <<>>, want |-> <<>>]

\* buffer.write(payload)
ChainWrite(payload) ==
    /\ trip.pc = "chain"
    /\ trip.calls < MaxCalls
    /\ Len(trip.held) + Len(payload) <= MaxPayload
    /\ buf' = chain_write(buf, payload)
    /\ trip' = [trip EXCEPT !.calls = @ + 1,
                            !.held = @ \o payload,
                            !.last = "write",
                            !.payload = payload,
                            !.was_empty = (chain_size(buf) = 0),
                            !.copied = chain_copied(buf, chain_write(buf, payload)),
                            !.got = <<>>,
                            !.want = <<>>]
    /\ UNCHANGED <<kind, mode, read_limit, strm, oob, blk>>

\* buffer.read(destination, n)
ChainRead(n) ==
    /\ trip.pc = "chain"
    /\ trip.calls < MaxCalls
    /\ n <= chain_size(buf)
    /\ buf' = chain_read(buf, n).blocks
    /\ trip' = [trip EXCEPT !.calls = @ + 1,
                            !.held = Drop(@, n),
                            !.last = "read",
                            !.copied = <<>>,
                            !.got = chain_read(buf, n).bytes,
                            !.want = Take(trip.held, n)]
    /\ UNCHANGED <<kind, mode, read_limit, strm, oob, blk>>

\* buffer.skip(n)
ChainSkip(n) ==
    /\ trip.pc = "chain"
    /\ trip.calls < MaxCalls
    /\ n <= chain_size(buf)
    /\ buf' = chain_skip(buf, n)
    /\ trip' = [trip EXCEPT !.calls = @ + 1,
                            !.held = Drop(@, n),
                            !.last = "skip",
                            !.copied = <<>>,
                            !.got = <<>>,
                            !.want = <<>>]
    /\ UNCHANGED <<kind, mode, read_limit, strm, oob, blk>>

NextChain ==
    \/ \E payload \in Payloads : ChainWrite(payload)
    \/ \E n \in 0..MaxPayload : ChainRead(n)
    \/ \E n \in 1..MaxPayload : ChainSkip(n)

SpecChain == InitChain /\ [][NextChain]_vars

----------------------------------------------------------------------------
(* Write seeking: a binary_stream_writer over a flat buffer that supports  *)
(* write seeking, driven by writes and write_seek calls.  Of the buffer     *)
(* only the write cursor is followed: buf is [write_offset].  trip holds    *)
(* the cursor at the construction of the stream, how far past it the        *)
(* writes have reached, the writer object, the number of calls made and     *)
(* the last call.                                                           *)

\* farthest place, counted from the cursor at construction, the calls go to
MaxPos == 3

\* calls made on the writer in one run
MaxSeekCalls == 4

StreamSeekDirections == SeekDirections \cup {"sk_stream_absolute"}

\* the flat buffer is one block-equivalent: its write_seek moves the write
\* cursor as the block's does, its write advances the cursor by the bytes taken
flat_write_seek(b, direction, offset) == storage_write_seek(b, direction, offset)

flat_write(b, size) == [b EXCEPT !.write_offset = SizeAdd(b.write_offset, size)]

\* write(data, size) over the flat buffer
writer_write_flat(c, size) ==
    IF c.state = "ok"
    THEN [c EXCEPT !.buf = flat_write(c.buf, size),
                   !.total_write = SizeAdd(c.total_write, size)]
    ELSE c

\* write_seek(direction, offset)
writer_write_seek(c, direction, offset) ==
    IF direction = "sk_stream_absolute"
    THEN IF offset >= c.total_write
         THEN [c EXCEPT !.buf = flat_write_seek(c.buf, "sk_forward",
                                                SizeSub(offset, c.total_write)),
                        !.total_write = offset]
         ELSE [c EXCEPT !.buf = flat_write_seek(c.buf, "sk_backward",
                                                SizeSub(c.total_write, offset)),
                        !.total_write = offset]
    ELSE [c EXCEPT !.buf = flat_write_seek(c.buf, direction, offset)]

InitSeek ==
    /\ kind = "reader"
    /\ mode = "throw"
    /\ read_limit = 0
    /\ strm = NewStream
    /\ oob = FALSE
    /\ blk = NoBlock
    /\ \E base \in 0..1 :
          /\ buf = [write_offset |-> base]
          /\ trip = [pc |-> "seek", base |-> base, extent |-> 0, calls |-> 0,
                     w |-> [total_write |-> 0, state |-> "ok"],
                     last |-> [call |-> "none", offset |-> 0]]

SeekCtx ==
    [buf |-> buf, total_write |-> trip.w.total_write, state |-> trip.w.state]

\* the cursor counted from where it stood at construction
Position(b) == b.write_offset - trip.base

\* the writer leaves r; a run is followed while the cursor is within MaxPos
\* of where it stood at construction
SeekStep(r, call, offset) ==
    /\ trip.pc = "seek"
    /\ trip.calls < MaxSeekCalls
    /\ Position(buf) \in 0..MaxPos
    /\ buf' = r.buf
    /\ trip' = [trip EXCEPT !.calls = @ + 1,
                            !.extent = IF call = "write" /\ Position(r.buf) > @
                                       THEN Position(r.buf) ELSE @,
                            !.w = [total_write |-> r.total_write, state |-> r.state],
                            !.last = [call |-> call, offset |-> offset]]
    /\ UNCHANGED <<kind, mode, read_limit, strm, oob, blk>>

\* stream << value of size bytes
SeekWrite(size) ==
    /\ Position(buf) + size <= MaxPos
    /\ SeekStep(writer_write_flat(SeekCtx, size), "write", size)

\* stream.write_seek(direction, offset) with a buffer direction: the caller
\* keeps the cursor within the bytes written through the stream
SeekRelative(direction, offset) ==
    /\ Position(flat_write_seek(buf, direction, offset)) \in 0..trip.extent
    /\ SeekStep(writer_write_seek(SeekCtx, direction, offset), direction, offset)

\* stream.write_seek(sk_stream_absolute, offset), to a place within the bytes
\* written through the stream
SeekStreamAbsolute(offset) ==
    /\ offset <= trip.extent
    /\ SeekStep(writer_write_seek(SeekCtx, "sk_stream_absolute", offset),
                "sk_stream_absolute", offset)

NextSeek ==
    \/ \E size \in 1..MaxPos : SeekWrite(size)
    \/ \E direction \in SeekDirections, offset \in 0..(MaxPos + 1) :
          SeekRelative(direction, offset)
    \/ \E offset \in 0..MaxPos : SeekStreamAbsolute(offset)

SpecSeek == InitSeek /\ [][NextSeek]_vars

----------------------------------------------------------------------------
(* Write seeking on binary_stream: the same flat buffer under one           *)
(* binary_stream, driven by writes and by stream-absolute seeks to places   *)
(* at or before total_write.                                                *)

\* binary_stream: operator<<(const T&), put, fill over the flat buffer
stream_write_flat(c, size) ==
    [c EXCEPT !.buf = flat_write(c.buf, size),
              !.total_write = SizeAdd(c.total_write, size)]

\* binary_stream: write_seek(direction, offset)
stream_write_seek(c, direction, offset) ==
    IF direction = "sk_stream_absolute"
    THEN [c EXCEPT !.buf = flat_write_seek(c.buf, "sk_backward",
                                           SizeSub(c.total_write, offset))]
    ELSE [c EXCEPT !.buf = flat_write_seek(c.buf, direction, offset)]

InitStreamSeek ==
    /\ kind = "stream"
    /\ mode = "throw"
    /\ read_limit = 0
    /\ strm = NewStream
    /\ oob = FALSE
    /\ blk = NoBlock
    /\ \E base \in 0..1 :
          /\ buf = [write_offset |-> base]
          /\ trip = [pc |-> "seek", base |-> base, extent |-> 0, calls |-> 0,
                     w |-> [total_write |-> 0, state |-> "ok"],
                     last |-> [call |-> "none", offset |-> 0]]

\* stream << value of size bytes, stream.put(...), stream.fill<size>(value)
StreamSeekWrite(size) ==
    /\ trip.w.total_write + size <= MaxPos + MaxSeekCalls
    /\ SeekStep(stream_write_flat(SeekCtx, size), "write", size)

\* stream.write_seek(sk_stream_absolute, offset) with offset <= total_write
StreamSeekAbsolute(offset) ==
    /\ offset <= trip.w.total_write
    /\ SeekStep(stream_write_seek(SeekCtx, "sk_stream_absolute", offset),
                "sk_stream_absolute", offset)

NextStreamSeek ==
    \/ \E size \in 1..MaxPos : StreamSeekWrite(size)
    \/ \E offset \in 0..MaxPos : StreamSeekAbsolute(offset)

SpecStreamSeek == InitStreamSeek /\ [][NextStreamSeek]_vars

----------------------------------------------------------------------------
(* Vocabulary of the properties *)

\* the read calls of the two classes: [name, a, b] with a and b the arguments
ReadOps ==
    [name : {"get_pod"}, a : ElemSizes, b : {0}]
        \cup [name : {"get_string", "skip"}, a : 0..MaxReq, b : {0}]
        \cup [name : {"get_array", "span"}, a : Counts, b : ElemSizes]
        \cup [name : {"get_iter"}, a : 0..MaxCount, b : ElemSizes]
        \cup [name : {"null_terminated", "view", "prefixed_string", "varint_string"},
              a : {0}, b : {0}]
        \cup [name : {"prefixed_container", "varint_container"}, a : ElemSizes, b : {0, 1}]

ReaderOnly == {"prefixed_string", "varint_string", "prefixed_container", "varint_container"}
StreamOnly == {"view", "span"}

\* what the call op leaves when it is made in context c
Apply(c, op, outcome) ==
    CASE op.name = "get_pod" -> get_pod(c, op.a)
      [] op.name = "get_string" -> get_string(c, op.a)
      [] op.name = "skip" -> skip(c, op.a)
      [] op.name = "get_array" -> get_array(c, op.a, op.b)
      [] op.name = "span" -> stream_span(c, op.a, op.b)
      [] op.name = "get_iter" -> get_iter(c, op.a, op.b)
      [] op.name = "null_terminated" -> null_terminated(c)
      [] op.name = "view" -> stream_view(c)
      [] op.name = "prefixed_string" -> reader_prefixed_string(c)
      [] op.name = "varint_string" -> reader_varint_string(c, outcome)
      [] op.name = "prefixed_container" -> reader_prefixed_container(c, op.a, op.b = 1)
      [] op.name = "varint_container" -> reader_varint_container(c, op.a, op.b = 1)

\* the calls the class under test offers
Offered ==
    {op \in ReadOps : op.name \notin (IF kind = "reader" THEN StreamOnly ELSE ReaderOnly)}

\* the calls that ask for a number of bytes in one bounds check, and that number
Sized == {op \in Offered : op.name \in {"get_pod", "get_string", "skip", "get_array", "span"}}

Requested(op) ==
    IF op.name \in {"get_array", "span"} THEN SizeMul(op.a, op.b) ELSE op.a

\* the calls that read up to and including the next null byte
Terminated == {op \in Offered : op.name \in {"null_terminated", "view"}}

\* the bounded reads of binary_stream_reader
ReaderBounded ==
    {op \in Offered : op.name \in {"get_pod", "get_string", "skip", "get_array",
                                   "null_terminated", "prefixed_string", "varint_string"}}

\* what the call op, made now, leaves
Result(op, outcome) == Apply(Ctx, op, outcome)

\* two runs end alike: state(), total_read(), remaining buffer size, and
\* whether the process is still there
Same(r1, r2) ==
    /\ r1.state = r2.state
    /\ r1.total_read = r2.total_read
    /\ buffer_size(r1) = buffer_size(r2)
    /\ r1.alive = r2.alive

\* from the present state every call ends alike in the two modes
ModesAgree(ops) ==
    \A op \in ops : \A outcome \in UBOutcomes :
        Same(Apply(CtxAs("throw"), op, outcome), Apply(CtxAs("nothrow"), op, outcome))

----------------------------------------------------------------------------
(* Properties of the stream machine (Spec) *)

\* C1: the stream never calls buffer.read or buffer.skip with a byte count
\* greater than buffer.size() at the moment of the call, whatever the class,
\* the mode, the buffer contents and the calls made.
C1_NoOutOfBoundsAccess == oob = FALSE

\* C1 witness: bytes were read, a further read was refused for want of bytes,
\* and no call went past the end of the buffer
C1_Witness ==
    /\ oob = FALSE
    /\ strm.state = "buff_limit_err"
    /\ strm.total_read > 0
    /\ buf = <<>>

\* C2 as stated: a read of more bytes than the buffer holds always sets
\* buffer_underrun and leaves total_read and the buffer unchanged, in both modes.
C2_OversizeAlwaysUnderrun ==
    \A op \in Sized :
        (strm.alive /\ Requested(op) > Len(buf))
            => /\ Result(op, "return").state = "buff_limit_err"
               /\ Result(op, "return").total_read = strm.total_read
               /\ Result(op, "return").buf = buf

\* C2 amended: a read of more bytes than the buffer holds sets buffer_underrun
\* and leaves total_read and the buffer unchanged, in both modes, on a
\* binary_stream in any state and on a binary_stream_reader whose state is ok
\* when the call is made.
C2_OversizeUnderrunWhenChecked ==
    \A op \in Sized :
        (strm.alive /\ Requested(op) > Len(buf) /\ (kind = "stream" \/ strm.state = "ok"))
            => /\ Result(op, "return").state = "buff_limit_err"
               /\ Result(op, "return").total_read = strm.total_read
               /\ Result(op, "return").buf = buf

\* C2 witness: bytes were read, bytes are left, the state is ok, and a read of
\* more than is left is refused with buffer_underrun
C2_Witness ==
    /\ strm.alive
    /\ strm.state = "ok"
    /\ strm.total_read > 0
    /\ Len(buf) > 0
    /\ \E op \in Sized :
          /\ Requested(op) > Len(buf)
          /\ Result(op, "return").state = "buff_limit_err"

\* how far the next null byte is, the byte itself included
TerminatedSize == find_first_of(buf, 0) + 1

\* C3: with read_limit = L > 0, a read made in state ok that fits the buffer
\* succeeds when it keeps the cumulative total at or below L, and otherwise
\* sets read_limit_exceeded, consumes nothing and leaves total_read unchanged.
C3_LimitCrossedAtFirstRead ==
    \A op \in Sized \cup Terminated :
        LET size == IF op \in Sized THEN Requested(op) ELSE TerminatedSize
            r == Result(op, "return")
        IN  (/\ strm.alive
             /\ read_limit # 0
             /\ strm.state = "ok"
             /\ strm.total_read <= read_limit
             /\ size <= Len(buf))
                => IF strm.total_read + size <= read_limit
                   THEN /\ r.state = "ok"
                        /\ r.total_read = strm.total_read + size
                        /\ Len(r.buf) = Len(buf) - size
                   ELSE /\ r.state = "read_limit_err"
                        /\ r.total_read = strm.total_read
                        /\ r.buf = buf

\* C4: on a binary_stream_reader whose state is not ok every bounded read is
\* a no-op in both modes: the call returns, and the buffer, total_read and the
\* state value are what they were.
C4_PoisonedReaderNoOp ==
    (kind = "reader" /\ strm.alive /\ strm.state # "ok")
        => \A op \in ReaderBounded : \A outcome \in UBOutcomes :
              /\ Result(op, outcome).buf = buf
              /\ Object(Result(op, outcome)) = strm

\* C5: on a non-throwing binary_stream whose state is not ok every bounded
\* read leaves the buffer and total_read unchanged.
C5_PoisonedStreamFrame ==
    (kind = "stream" /\ mode = "nothrow" /\ strm.alive /\ strm.state # "ok")
        => \A op \in Sized :
              /\ Result(op, "return").buf = buf
              /\ Result(op, "return").total_read = strm.total_read

\* C6: a throwing binary_stream_reader whose caller catches and goes on and a
\* non-throwing one, given the same buffer, read_limit and calls, end with the
\* same state(), total_read() and remaining buffer size.
C6_ReaderModeEquivalence ==
    (kind = "reader" /\ strm.alive) => ModesAgree(Offered)

\* C7: a throwing binary_stream whose caller catches and goes on and a
\* non-throwing one, given the same buffer, read_limit and calls, end with the
\* same state(), total_read() and remaining buffer size.
C7_StreamModeEquivalence ==
    (kind = "stream" /\ strm.alive) => ModesAgree(Offered)

\* C8: a moved-from instance reports invalid_stream whenever its state is
\* observed, whatever is called on it after the move.
C8_MovedFromStaysInvalid == strm.moved => strm.state = "invalid_stream"

\* C15: on an object that has not been moved from, constructed with
\* read_limit = L > 0, total_read never exceeds L, whatever is read and however.
C15_ReadLimitCeiling ==
    (~strm.moved /\ read_limit # 0) => strm.total_read <= read_limit

\* the buffer holds no null byte
NoTerminator == find_first_of(buf, 0) = npos

\* C16: when the buffer holds no null byte, null-terminated extraction yields
\* an empty result and consumes nothing: the buffer and total_read are unchanged.
C16_NoTerminatorConsumesNothing ==
    (strm.alive /\ NoTerminator)
        => \A op \in Terminated :
              /\ Result(op, "return").val = <<>>
              /\ Result(op, "return").buf = buf
              /\ Result(op, "return").total_read = strm.total_read

\* C16 witness: after bytes were read, the bytes left hold no null byte and
\* an extraction attempted on them yields the empty string
C16_Witness ==
    /\ strm.alive
    /\ strm.state = "ok"
    /\ strm.total_read > 0
    /\ Len(buf) > 1
    /\ NoTerminator
    /\ \A op \in Terminated : Result(op, "return").val = <<>>

\* C17: when the buffer holds no null byte, null-terminated string extraction
\* sets the state to buffer_underrun.
C17_NoTerminatorSetsUnderrun ==
    (strm.alive /\ NoTerminator)
        => \A op \in {o \in Terminated : o.name = "null_terminated"} :
              Result(op, "return").state = "buff_limit_err"

\* C18: read_max() on a binary_stream_reader is the lesser of the buffer size
\* and the remaining read-limit budget (the buffer size when there is no
\* limit): the call returns that number, and a read of read_max() bytes on an
\* ok stream succeeds.
C18_ReadMaxIsLesser ==
    (kind = "reader" /\ strm.alive /\ ~strm.moved)
        => /\ read_max_assertion(Ctx)
           /\ read_max(Ctx) = IF read_limit # 0
                               THEN Min(Len(buf), read_limit - strm.total_read)
                               ELSE Len(buf)
           /\ strm.state = "ok" => reader_get_string(Ctx, read_max(Ctx)).state = "ok"

\* the remaining read-limit budget is defined and the bounds check is reached
LimitChecked ==
    /\ strm.alive
    /\ read_limit # 0
    /\ strm.total_read <= read_limit
    /\ (kind = "stream" \/ strm.state = "ok")

\* C20 as stated: with a read limit, a read of more bytes than the remaining
\* budget sets read_limit_exceeded, also when it asks for more than the buffer holds.
C20_LimitErrorReplacesUnderrun ==
    \A op \in Sized :
        (LimitChecked /\ Requested(op) > read_limit - strm.total_read)
            => Result(op, "return").state = "read_limit_err"

\* C20 amended: with a read limit, a read of more bytes than the remaining
\* budget sets read_limit_exceeded when the request fits the buffer, and
\* buffer_underrun when it asks for more than the buffer holds as well.
C20_LimitErrorWhenRequestFits ==
    \A op \in Sized :
        (LimitChecked /\ Requested(op) > read_limit - strm.total_read)
            => Result(op, "return").state =
                  IF Requested(op) > Len(buf) THEN "buff_limit_err" ELSE "read_limit_err"

\* C20 witness: bytes were read; a request within the buffer but over the
\* budget gets read_limit_exceeded, a larger one over both gets buffer_underrun
C20_Witness ==
    /\ LimitChecked
    /\ strm.state = "ok"
    /\ strm.total_read > 0
    /\ \E op \in Sized :
          /\ Requested(op) > read_limit - strm.total_read
          /\ Requested(op) <= Len(buf)
          /\ Result(op, "return").state = "read_limit_err"
    /\ \E op \in Sized :
          /\ Requested(op) > read_limit - strm.total_read
          /\ Requested(op) > Len(buf)
          /\ Result(op, "return").state = "buff_limit_err"

\* the extractions of binary_stream_reader that read a count and then a payload
LengthPrefixed ==
    {op \in Offered : op.name \in {"prefixed_string", "varint_string",
                                   "prefixed_container", "varint_container"}}

\* what reading the prefix of op, and nothing after it, leaves
PrefixRead(op) ==
    IF op.name \in {"prefixed_string", "prefixed_container"}
    THEN reader_get_pod(Ctx, 4)
    ELSE varint_decode(Ctx)

\* the count was decoded; the extraction fails on the payload
FailsOnPayload(op) ==
    /\ kind = "reader"
    /\ strm.alive
    /\ strm.state = "ok"
    /\ PrefixRead(op).state = "ok"
    /\ Result(op, "return").state # "ok"

\* C21: when a length-prefixed extraction on an ok binary_stream_reader fails
\* because the decoded count exceeds the bytes remaining or the read-limit
\* budget, total_read and the buffer are what they were before the call: the
\* prefix bytes are not left consumed.
C21_FailedPrefixedReadConsumesNothing ==
    \A op \in LengthPrefixed :
        FailsOnPayload(op)
            => /\ Result(op, "return").total_read = strm.total_read
               /\ Result(op, "return").buf = buf

\* control returns from the varint decode of operator>>(prefixed_varint<std::string>)
\* made now and the state is not ok: the branch marked unreachable is taken
TakesUnreachable ==
    /\ ~varint_decode(Ctx).thrown
    /\ varint_decode(Ctx).state # "ok"

\* C27: in operator>>(prefixed_varint<std::string>) of binary_stream_reader the
\* state is ok whenever control returns from the varint decode, so the branch
\* marked unreachable is never taken: for every buffer and entry state, in
\* throwing and non-throwing mode.
C27_UnreachableNeverTaken ==
    (kind = "reader" /\ strm.alive) => ~TakesUnreachable

\* C28: the assertion of read_max(), total_read < read_limit, holds in every
\* state in which read_max() can be called on a reader constructed with
\* read_limit > 0, after any sequence of successful reads, also one that
\* consumes exactly read_limit bytes.
C28_ReadMaxAssertionHolds ==
    (kind = "reader" /\ strm.alive /\ ~strm.moved /\ strm.state = "ok" /\ read_limit # 0)
        => read_max_assertion(Ctx)

\* the length-prefixed extractions of a container read one element at a time
ElementWise ==
    {op \in LengthPrefixed : op.name \in {"prefixed_container", "varint_container"} /\ op.b = 0}

\* the number of elements of op.a bytes each that the extraction op, made now,
\* takes from the buffer after its prefix
ElementsConsumed(op) ==
    (Len(PrefixRead(op).buf) - Len(Result(op, "return").buf)) \div op.a

\* C29: in non-throwing mode, after a length-prefixed extraction of a container
\* whose elements are read one at a time, the number of elements placed in the
\* destination equals the number of elements whose bytes were consumed from
\* the buffer: once the stream is not ok no further element is appended, so a
\* declared count larger than the data cannot grow the container beyond what
\* was decoded.
C29_ElementLoopStopsAtFailure ==
    (kind = "reader" /\ mode = "nothrow" /\ strm.alive)
        => \A op \in ElementWise : Result(op, "return").n_out = ElementsConsumed(op)

\* the call leaving r added to total_read the number of bytes it removed
\* from the buffer
Accounted(r) == r.total_read - strm.total_read = Len(buf) - Len(r.buf)

\* the reader holds the total_read that a move leaves in its source: it has
\* been moved from, or was move-constructed from a reader that had been
HoldsMovedFromCount == strm.moved \/ strm.total_read = SizeMax

\* C30: on a binary_stream_reader that holds no moved-from state, in both
\* modes and across errors and clear_error_state calls, total_read is the
\* number of bytes the reader has removed from the buffer: it is zero at
\* construction, and every call adds to it exactly the number of bytes it removes.
C30_ReadAccounting ==
    /\ NewStream.total_read = 0
    /\ (kind = "reader" /\ strm.alive /\ ~HoldsMovedFromCount)
          => /\ \A op \in Offered : \A outcome \in UBOutcomes : Accounted(Result(op, outcome))
             /\ Accounted(clear_error_state(Ctx))
             /\ Accounted(set_error_state(Ctx))

\* C30 witness: the reader has read bytes, a read has failed and left bytes in
\* the buffer, and after clear_error_state a skip of one byte adds one to
\* total_read and takes one byte
C30_Witness ==
    /\ kind = "reader"
    /\ strm.alive
    /\ ~strm.moved
    /\ strm.total_read \in 1..MaxBuf
    /\ strm.state \in {"buff_limit_err", "read_limit_err"}
    /\ Len(buf) > 0
    /\ reader_skip(clear_error_state(Ctx), 1).total_read = strm.total_read + 1
    /\ Len(reader_skip(clear_error_state(Ctx), 1).buf) = Len(buf) - 1

----------------------------------------------------------------------------
(* Property of the storage block (SpecBlock) *)

\* C9: 0 <= read_offset <= write_offset <= N after any sequence of write, copy,
\* read, skip, advance_write, write_seek and clear calls with arbitrary arguments.
C9_BlockInvariant ==
    /\ 0 <= blk.block.read_offset
    /\ blk.block.read_offset <= blk.block.write_offset
    /\ blk.block.write_offset <= BlockSize

\* where read or skip of length bytes leaves the read cursor before the reset
Advanced(length) ==
    blk.block.read_offset + Min(BlockSize - blk.block.read_offset, length)

\* the offsets a read or skip of length bytes ought to leave
OffsetsAfter(length, allow_optimise) ==
    IF allow_optimise /\ Advanced(length) = blk.block.write_offset
    THEN <<0, 0>>
    ELSE <<Advanced(length), blk.block.write_offset>>

Offsets(b) == <<b.read_offset, b.write_offset>>

\* C22: read and skip reset a block's offsets to read_offset = write_offset = 0
\* only when allow_optimise is true and the read cursor has reached the write
\* cursor; with allow_optimise false no read, skip or copy lowers read_offset
\* or changes write_offset.
C22_BlockResetIsOptIn ==
    ~blk.block.wild
        => \A length \in Lengths :
              /\ \A allow_optimise \in BOOLEAN :
                    /\ Offsets(storage_read(blk.block, length, allow_optimise).blk)
                          = OffsetsAfter(length, allow_optimise)
                    /\ Offsets(storage_skip(blk.block, length, allow_optimise).blk)
                          = OffsetsAfter(length, allow_optimise)
              /\ storage_read(blk.block, length, FALSE).blk.read_offset >= blk.block.read_offset
              /\ storage_skip(blk.block, length, FALSE).blk.read_offset >= blk.block.read_offset
              /\ storage_read(blk.block, length, FALSE).blk.write_offset = blk.block.write_offset
              /\ storage_skip(blk.block, length, FALSE).blk.write_offset = blk.block.write_offset

\* C22 witness: reads without allow_optimise have drained a block that was
\* written to and its offsets stand where they were left; a skip of nothing
\* with allow_optimise resets them
C22_Witness ==
    /\ ~blk.block.wild
    /\ blk.block.read_offset = blk.block.write_offset
    /\ blk.block.write_offset \in 1..BlockSize
    /\ blk.got # <<>>
    /\ Offsets(storage_skip(blk.block, 0, TRUE).blk) = <<0, 0>>
    /\ Offsets(storage_skip(blk.block, 0, FALSE).blk) = Offsets(blk.block)

\* C23: copy(dst, n) leaves read_offset, write_offset and the stored bytes as
\* they are and delivers the bytes and the count that a read(dst, n) made right
\* after it delivers; read then advances read_offset by the count it returns.
C23_CopyIsNonAdvancing ==
    ~blk.block.wild
        => \A length \in Lengths :
              /\ ~storage_copy(blk.block, length).wild
              /\ \A allow_optimise \in BOOLEAN :
                    /\ storage_read(blk.block, length, allow_optimise).bytes
                          = storage_copy(blk.block, length).bytes
                    /\ storage_read(blk.block, length, allow_optimise).n
                          = storage_copy(blk.block, length).n
                    /\ storage_read(blk.block, length, allow_optimise).blk.storage
                          = blk.block.storage
              /\ storage_read(blk.block, length, FALSE).blk.read_offset
                    = blk.block.read_offset + storage_read(blk.block, length, FALSE).n
              /\ storage_read(blk.block, length, FALSE).blk.write_offset = blk.block.write_offset

\* C23 witness: a copy has just delivered two bytes that differ from the
\* middle of a block, and the read that follows delivers the same two
C23_Witness ==
    /\ ~blk.block.wild
    /\ blk.block.read_offset > 0
    /\ blk.block.read_offset < blk.block.write_offset
    /\ blk.ret = 2
    /\ blk.got = storage_copy(blk.block, 2).bytes
    /\ blk.got[1] # blk.got[2]
    /\ storage_read(blk.block, 2, FALSE).bytes = blk.got
    /\ storage_read(blk.block, 2, FALSE).blk.read_offset = blk.block.read_offset + 2

\* C31: for any requested length, read, copy and skip of a storage block
\* return at most size() = write_offset - read_offset, the number of bytes
\* available to read, so they never deliver or step over bytes at or beyond
\* write_offset.
C31_ReadsCappedAtAvailable ==
    (~blk.block.wild /\ blk.block.read_offset <= blk.block.write_offset
                     /\ blk.block.write_offset <= BlockSize)
        => \A length \in Lengths :
              /\ storage_copy(blk.block, length).n <= storage_size(blk.block)
              /\ storage_read(blk.block, length, FALSE).n <= storage_size(blk.block)
              /\ storage_skip(blk.block, length, FALSE).n <= storage_size(blk.block)
              /\ storage_read(blk.block, length, FALSE).blk.read_offset <= blk.block.write_offset
              /\ storage_skip(blk.block, length, FALSE).blk.read_offset <= blk.block.write_offset

----------------------------------------------------------------------------
(* Property of the round trip (SpecRoundTrip) *)

\* C10: a string written with a fixed-width prefix and read back with a
\* fixed-width prefix from the same buffer comes back unchanged; the reader
\* consumes the 4 + |s| bytes the writer wrote and its state stays ok.
C10_PrefixedStringRoundTrip ==
    (trip.pc = "read" /\ trip.w.state = "ok")
        => /\ trip.out = trip.s
           /\ strm.total_read = 4 + Len(trip.s)
           /\ strm.total_read = trip.w.total_write
           /\ strm.state = "ok"
           /\ chain_size(buf) = 0

\* C10 witness: a string longer than one storage block has made the trip
C10_Witness ==
    /\ trip.pc = "read"
    /\ trip.w.state = "ok"
    /\ Len(trip.s) > BlockSize
    /\ trip.out = trip.s
    /\ strm.total_read = 4 + Len(trip.s)

\* the unsigned number four bytes hold, least significant byte first
LittleEndian32(p) == p[1] + 256 * p[2] + 65536 * p[3] + 16777216 * p[4]

\* the bytes added are four bytes that hold Len(str) and then str
PrefixThenPayload(added, str) ==
    /\ Len(added) = 4 + Len(str)
    /\ \A i \in 1..4 : added[i] \in 0..255
    /\ LittleEndian32(added) = Len(str)
    /\ Drop(added, 4) = str

----------------------------------------------------------------------------
(* Properties of the wire (SpecWire) *)

\* the last read was for an item framed as type
LastRead(type) == trip.last.item.type = type

\* C11: a scalar written with a byte order and read with the same byte order
\* comes back as it was, with sizeof(v) bytes written and sizeof(v) consumed.
C11_ScalarRoundTrip ==
    LastRead("scalar")
        => /\ trip.last.v = trip.last.item.v
           /\ trip.last.wrote = trip.last.item.w
           /\ trip.last.used = trip.last.item.w
           /\ strm.state = "ok"

\* C11 witness: on either machine, a two-byte scalar whose bytes differ made
\* the trip in the byte order that is not the machine's own
C11_Witness ==
    /\ LastRead("scalar")
    /\ trip.last.item.w = 2
    /\ trip.last.item.order \notin {"native", trip.host}
    /\ byteswap(trip.last.item.v, 2) # trip.last.item.v
    /\ trip.last.v = trip.last.item.v

\* C12: null-terminated strings written one after another are read back in
\* order, each as it was written and without its terminator, each read
\* consuming |s| + 1 bytes.
C12_NullTerminatedSequence ==
    LastRead("cstring")
        => /\ trip.last.s = trip.last.item.s
           /\ trip.last.used = Len(trip.last.item.s) + 1
           /\ trip.last.wrote = Len(trip.last.item.s) + 1
           /\ strm.state = "ok"

\* C12 witness: two different strings were written before either was read,
\* and the second has been read back
C12_Witness ==
    /\ LastRead("cstring")
    /\ trip.last.n = 2
    /\ trip.last.s = trip.last.item.s
    /\ trip.last.s # <<>>
    /\ strm.total_read = trip.w.total_write
    /\ strm.total_read > Len(trip.last.s) + 1

\* C13: a value put through the varint encoder and then the decoder comes
\* back as it was, and the decoder consumes the bytes the encoder emitted:
\* one for each group of seven bits.  So does a string written and read with
\* a varint prefix.
C13_VarintRoundTrip ==
    /\ LastRead("varint")
        => /\ trip.last.v = trip.last.item.v
           /\ trip.last.used = trip.last.wrote
           /\ trip.last.wrote = VarintGroups(trip.last.item.v)
           /\ strm.state = "ok"
    /\ LastRead("vstring")
        => /\ trip.last.s = trip.last.item.s
           /\ trip.last.used = trip.last.wrote
           /\ trip.last.wrote = VarintGroups(Len(trip.last.item.s)) + Len(trip.last.item.s)
           /\ strm.state = "ok"

\* C13 witness: the largest value of the type made the trip
C13_Witness ==
    /\ LastRead("varint")
    /\ trip.last.item.v = SizeMax
    /\ trip.last.v = SizeMax
    /\ trip.last.used > 1

\* the write operations of binary_stream_writer, [name, v, w, order, s, as_view]
WriteOps ==
    {[name |-> "scalar", v |-> 254, w |-> w, order |-> "native", s |-> <<>>, as_view |-> FALSE]
        : w \in ScalarWidths}
    \cup {[name |-> "cstring", v |-> 0, w |-> 0, order |-> "native", s |-> <<1, 2>>, as_view |-> a]
        : a \in BOOLEAN}
    \cup {[name |-> "varint", v |-> v, w |-> 0, order |-> "native", s |-> <<>>, as_view |-> FALSE]
        : v \in {0, 128}}
    \cup {[name |-> n, v |-> 0, w |-> 0, order |-> "native", s |-> str, as_view |-> FALSE]
        : n \in {"prefixed", "varint_prefixed"}, str \in {<<>>, <<1, 2>>}}

\* what the write op leaves when it is made in context c
ApplyWrite(c, op, fail_at) ==
    CASE op.name = "scalar" -> writer_put_endian(c, op.v, op.w, op.order, trip.host, fail_at)
      [] op.name = "cstring" -> writer_null_terminated(c, op.s, op.as_view, fail_at)
      [] op.name = "varint" -> varint_encode(c, op.v, fail_at)
      [] op.name = "prefixed" -> writer_prefixed(c, op.s, fail_at)
      [] op.name = "varint_prefixed" -> writer_varint_prefixed(c, op.s, fail_at)

\* the number of write calls the operation makes
WriteCalls(op) ==
    CASE op.name = "scalar" -> 1
      [] op.name = "cstring" -> IF op.as_view THEN 2 ELSE 1
      [] op.name = "varint" -> VarintGroups(op.v)
      [] op.name = "prefixed" -> 2
      [] op.name = "varint_prefixed" -> VarintGroups(Len(op.s)) + 1

\* the bytes the first write call of the operation asks for
FirstWriteSize(op) ==
    CASE op.name = "scalar" -> op.w
      [] op.name = "cstring" -> IF op.as_view THEN Len(op.s) ELSE Len(op.s) + 1
      [] op.name = "varint" -> 1
      [] op.name = "prefixed" -> 4
      [] op.name = "varint_prefixed" -> 1

\* C19: when the buffer's write raises during a write operation of
\* binary_stream_writer, the state becomes write_failure, total_write counts
\* only the bytes of the write calls made before it, and the error reaches
\* the caller in throwing mode only; on a writer whose state is not ok every
\* write operation is a no-op from which nothing is raised.
C19_WriterFailure ==
    kind = "reader" =>
        \A op \in WriteOps : \A fail_at \in 0..2 :
            LET r == ApplyWrite(WriterCtx, op, fail_at)
            IN  /\ (trip.w.state = "ok" /\ fail_at \in 1..WriteCalls(op))
                    => /\ r.state = "buff_write_err"
                       /\ r.thrown = (mode = "throw")
                       /\ r.total_write = trip.w.total_write
                                            + (IF fail_at = 1 THEN 0 ELSE FirstWriteSize(op))
                /\ trip.w.state # "ok"
                    => /\ r.state = trip.w.state
                       /\ r.total_write = trip.w.total_write
                       /\ r.buf = buf
                       /\ ~r.thrown

\* C19 witness: after a successful write a write failed without raising, and
\* the writes offered to the poisoned writer change nothing
C19_Witness ==
    /\ kind = "reader"
    /\ mode = "nothrow"
    /\ trip.w.state = "buff_write_err"
    /\ ~trip.escaped
    /\ trip.w.total_write > 0
    /\ trip.writes = 2
    /\ \A op \in WriteOps : ApplyWrite(WriterCtx, op, 0).buf = buf

\* the writer as it is, and as a move out of it would leave it
WriterObjects == {WriterCtx, writer_move_from(WriterCtx)}

\* the write leaving r changed neither the buffer nor the writer c
WriteIsNoOp(c, r) ==
    /\ r.buf = buf
    /\ r.total_write = c.total_write
    /\ r.state = c.state

\* C26: while the state of a binary_stream_writer is not ok, after a write
\* failure or on a moved-from writer, every write operation (<< of scalars,
\* endian adaptors, strings, containers and adaptors; put; fill) leaves the
\* buffer and total_write unchanged.
C26_PoisonedWriterFrame ==
    kind = "reader" =>
        \A c \in WriterObjects :
            c.state # "ok"
                => \A fail_at \in 0..2 :
                      /\ \A op \in WriteOps : WriteIsNoOp(c, ApplyWrite(c, op, fail_at))
                      /\ \A data \in WireStrings : WriteIsNoOp(c, writer_put(c, data, fail_at))
                      /\ \A size \in 1..BlockSize :
                            WriteIsNoOp(c, writer_fill(c, size, 255, fail_at))

\* C26 witness: a write raised to its caller after bytes had been written, the
\* writer went on in state write_failure with bytes in its buffer, and a fill
\* offered to it changes nothing
C26_Witness ==
    /\ kind = "reader"
    /\ mode = "throw"
    /\ trip.w.state = "buff_write_err"
    /\ trip.escaped
    /\ trip.w.total_write > 0
    /\ chain_size(buf) > 0
    /\ WriteIsNoOp(WriterCtx, writer_fill(WriterCtx, BlockSize, 255, 0))
    /\ WriteIsNoOp(writer_move_from(WriterCtx),
                   writer_fill(writer_move_from(WriterCtx), BlockSize, 255, 0))

----------------------------------------------------------------------------
(* Property of write seeking (SpecSeek) *)

\* C24: after any sequence of writes and write_seek calls (forward, backward
\* and absolute) on binary_stream_writer, write_seek(sk_stream_absolute, k)
\* leaves the buffer's write cursor k bytes past the place where it stood when
\* the stream was constructed, and total_write() = k.
C24_AbsoluteSeekLandsAtOffset ==
    trip.last.call = "sk_stream_absolute"
        => /\ buf.write_offset = trip.base + trip.last.offset
           /\ trip.w.total_write = trip.last.offset

----------------------------------------------------------------------------
(* Property of write seeking on binary_stream (SpecStreamSeek) *)

\* C32: after any sequence of put/<</fill calls and write_seek(sk_stream_absolute, k)
\* calls with k <= total_write on a binary_stream, total_write() equals the
\* displacement of the buffer's write cursor from its place at construction,
\* so that a later write_seek(sk_stream_absolute, j) lands j bytes past that place.
C32_StreamWriteAccounting ==
    /\ trip.w.total_write = Position(buf)
    /\ \A j \in 0..MaxPos :
          j <= trip.w.total_write
              => Position(stream_write_seek(SeekCtx, "sk_stream_absolute", j).buf) = j

----------------------------------------------------------------------------
(* Property of the segmented buffer (SpecChain) *)

RECURSIVE SumSeq(_)
SumSeq(s) == IF s = <<>> THEN 0 ELSE Head(s) + SumSeq(Tail(s))

\* the number of blocks of capacity BlockSize that n bytes take
BlocksFor(n) == (n + BlockSize - 1) \div BlockSize

\* the blocks of the chain that hold bytes
Occupied == {i \in 1..Len(buf) : storage_size(buf[i]) > 0}

\* C14: a payload of n bytes written to an empty chain of blocks of capacity N
\* lies in ceil(n/N) blocks; the amounts copied into the blocks by one write
\* are at most N each and sum to n; a read returns the bytes in the order
\* written, and a read of all of them leaves size() = 0.
C14_SegmentedBufferOrder ==
    /\ chain_bytes(buf) = trip.held
    /\ chain_size(buf) = Len(trip.held)
    /\ trip.last = "write"
        => /\ SumSeq(trip.copied) = Len(trip.payload)
           /\ \A i \in 1..Len(trip.copied) : trip.copied[i] \in 0..BlockSize
           /\ trip.was_empty => Cardinality(Occupied) = BlocksFor(Len(trip.payload))
    /\ trip.last = "read" => trip.got = trip.want

\* C14 witness: a payload that took three blocks was written to an empty
\* chain and read back whole in one call
C14_Witness ==
    /\ trip.last = "read"
    /\ trip.was_empty
    /\ trip.got = trip.payload
    /\ BlocksFor(Len(trip.got)) = 3
    /\ \E i \in 1..Len(trip.got) : trip.got[i] # trip.got[1]
    /\ chain_size(buf) = 0
====
